---- MODULE Spec2Model ----
(***************************************************************************)
(* Index-consistency orchestrator of the document question-answering       *)
(* system: the filesystem scan, the persisted registry, the vector store   *)
(* and the persisted keyword (BM25) snapshot, driven by                    *)
(* run_indexing_pipeline (src/core/index_pipeline.py): Spec.               *)
(* SpecIndexChunks, SpecDiff and SpecChunk follow index_chunks,            *)
(* diff_registry and chunk_documents called on their own with any input;   *)
(* SpecRetrieve follows the hybrid Retriever (src/core/retriever.py).      *)
(*                                                                         *)
(* Strings built by f-strings are built here with \o and ToString, so that *)
(* two id formats are equal only when the program's strings are equal.     *)
(* Texts are sequences of one-character strings.                           *)
(***************************************************************************)
EXTENDS Integers, Sequences, FiniteSets, TLC

\* ------------------------------------------------------------------ bounds

\* Number of filesystem changes (add, remove, replace a file) in a behaviour.
MaxFsChanges == 3

\* Longest chunk list handed to index_chunks when it is called on its own.
MaxChunks == 5

\* Longest page text handed to chunk_documents when it is called on its own.
MaxTextLen == 5

\* Chunks chunk_documents is followed through for one record.
MaxChunkIndex == 6

\* ------------------------------------------------- program constants
\* The program's values are 800, 150 and 5000; the model keeps their roles
\* (window, overlap, upsert ceiling) at a scale TLC can enumerate.
CHUNK_SIZE == 4
CHUNK_OVERLAP == 1
BATCH_SIZE == 2

\* page of an unpaginated text (Python None); PDF pages count from 1
NoPage == 0

\* The program's values are 50 and 10: how many records each recall stage
\* asks for, and how many results retrieve returns.
TOP_K_RETRIEVAL == 2
TOP_K_RERANKED == 2

\* Scores are kept in thousandths: 1.0 is One, the fallback's 0.5 is NeutralScore.
One == 1000
NeutralScore == 500

\* ------------------------------------------------------------ the documents

\* File names of DOCS_DIR, in the order iterdir() lists them.
DirOrder == <<"a.pdf", "b.txt">>
Names == {DirOrder[i] : i \in DOMAIN DirOrder}
NoFile == "nofile"

\* File contents (raw bytes), by kind.
Contents == {"PDF", "BIG", "BLANK"}

\* SHA-256 of the raw bytes: a function of the contents only, injective here.
compute_doc_id(content) ==
    CASE content = "PDF" -> "d1"
      [] content = "BIG" -> "d2"
      [] content = "BLANK" -> "d3"

DocIds == {compute_doc_id(c) : c \in Contents}

\* path.suffix.lower() == ".pdf"
IsPdfName(name) == name = "a.pdf"

RECURSIVE Repeat(_, _)
Repeat(c, n) == IF n <= 0 THEN <<>> ELSE <<c>> \o Repeat(c, n - 1)

\* fitz.open succeeds on PDF bytes only; on anything else it raises
PdfOpens(content) == content = "PDF"

\* page.get_text() of each page of the PDF: three pages, the second without text
PdfPageTexts(content) ==
    << <<"x", " ", "x">>, <<" ", " ">>, <<" ", "x", "x", " ", " ", "x">> >>

\* path.read_text(errors="ignore").  BIG: long enough for BATCH_SIZE + 1 chunks.
\* BLANK: whitespace only.  PDF bytes read as text: a short non-blank string.
FileText(content) ==
    CASE content = "BIG" -> Repeat("x", BATCH_SIZE * (CHUNK_SIZE - CHUNK_OVERLAP) + 1)
      [] content = "BLANK" -> <<" ", " ">>
      [] content = "PDF" -> <<"x", "x">>

\* ------------------------------------------------------------ text helpers

Max(a, b) == IF a >= b THEN a ELSE b
Min(a, b) == IF a <= b THEN a ELSE b

\* Python s[a:b] for 0 <= a
Slice(s, a, b) == SubSeq(s, a + 1, Min(b, Len(s)))

\* not s.strip()
IsBlank(s) == \A i \in DOMAIN s : s[i] = " "

\* s.rfind(" "), 0-based, -1 when there is none
RFindSpace(s) ==
    LET hits == {i \in DOMAIN s : s[i] = " "}
    IN IF hits = {} THEN -1 ELSE (CHOOSE i \in hits : \A j \in hits : j <= i) - 1

RECURSIVE KeepIdx(_, _, _)
KeepIdx(s, i, acc) ==
    IF i > Len(s) THEN acc
    ELSE IF s[i] # " " \/ (i > 1 /\ s[i - 1] # " ")
         THEN KeepIdx(s, i + 1, Append(acc, s[i]))
         ELSE KeepIdx(s, i + 1, acc)

\* " ".join(text.split()): runs of whitespace become one space, ends trimmed
_normalize(text) ==
    LET squeezed == KeepIdx(text, 1, <<>>)
    IN IF Len(squeezed) > 0 /\ squeezed[Len(squeezed)] = " "
       THEN SubSeq(squeezed, 1, Len(squeezed) - 1)
       ELSE squeezed

PageStr(page) == IF page = NoPage THEN "None" ELSE ToString(page)

\* ---------------------------------------------------------------- ingest

RECURSIVE ReadPdfFrom(_, _)
ReadPdfFrom(texts, i) ==
    IF i > Len(texts) THEN <<>>
    ELSE (IF ~IsBlank(texts[i]) THEN << [text |-> texts[i], page |-> i] >> ELSE <<>>)
         \o ReadPdfFrom(texts, i + 1)

_read_pdf(content) == ReadPdfFrom(PdfPageTexts(content), 1)

_read_txt(content) ==
    LET text == FileText(content)
    IN IF ~IsBlank(text) THEN << [text |-> text, page |-> NoPage] >> ELSE <<>>

RECURSIVE PagesToRecords(_, _, _)
PagesToRecords(pages, doc_id, source) ==
    IF pages = <<>> THEN <<>>
    ELSE << [doc_id |-> doc_id, text |-> _normalize(Head(pages).text),
             source |-> source, page |-> Head(pages).page] >>
         \o PagesToRecords(Tail(pages), doc_id, source)

\* One document of ingest_new_documents: the records of the file at `filename`.
\* A reader that raises is caught and logged, and the document adds no record.
IngestOne(doc_id, filename, content) ==
    IF IsPdfName(filename)
    THEN IF PdfOpens(content)
         THEN PagesToRecords(_read_pdf(content), doc_id, filename)
         ELSE <<>>
    ELSE PagesToRecords(_read_txt(content), doc_id, filename)

\* ingest_new_documents over the documents in dict order `order`
RECURSIVE IngestFrom(_, _, _)
IngestFrom(order, docs, files) ==
    IF order = <<>> THEN <<>>
    ELSE IngestOne(Head(order), docs[Head(order)], files[docs[Head(order)]])
         \o IngestFrom(Tail(order), docs, files)

\* --------------------------------------------------------------- chunker

\* an id without the page
ChunkIdNoPage(doc_id, page, chunk_index) == doc_id \o ":" \o ToString(chunk_index)

ChunkId(doc_id, page, chunk_index) ==
    doc_id \o ":" \o PageStr(page) \o ":" \o ToString(chunk_index)

\* One pass through the body of `while start < text_length` (lines 30-58):
\* the chunk it appends, if any, and the next start and chunk_index.
WhileBody(record, start, chunk_index) ==
    LET text == record.text
        text_length == Len(text)
        end0 == start + CHUNK_SIZE
        chunk0 == Slice(text, start, end0)
        last_space == RFindSpace(chunk0)
        cut == end0 < text_length /\ last_space # -1
        chunk_text == IF cut THEN Slice(chunk0, 0, last_space) ELSE chunk0
        end == IF cut THEN start + last_space ELSE end0
        keep == ~IsBlank(chunk_text)
        chunk == [id |-> ChunkId(record.doc_id, record.page, chunk_index),
                  doc_id |-> record.doc_id,
                  text |-> chunk_text,
                  source |-> record.source,
                  page |-> record.page,
                  metadata |-> [chunk_index |-> ToString(chunk_index),
                                char_start |-> ToString(start),
                                char_end |-> ToString(end)]]
    IN [appended |-> IF keep THEN <<chunk>> ELSE <<>>,
        start |-> Max(end - CHUNK_OVERLAP, 0),
        chunk_index |-> IF keep THEN chunk_index + 1 ELSE chunk_index]

RECURSIVE ChunkRecord(_, _, _, _)
ChunkRecord(record, start, chunk_index, acc) ==
    IF ~(start < Len(record.text)) THEN acc
    ELSE LET step == WhileBody(record, start, chunk_index)
         IN ChunkRecord(record, step.start, step.chunk_index, acc \o step.appended)

RECURSIVE chunk_documents(_)
chunk_documents(records) ==
    IF records = <<>> THEN <<>>
    ELSE ChunkRecord(Head(records), 0, 0, <<>>) \o chunk_documents(Tail(records))

\* -------------------------------------------------------------- registry

EmptyMap == [d \in {} |-> ""]

\* scanned.get(doc_id) for a doc_id that was not scanned
NoneInfo == "None"

RECURSIVE ScanFrom(_, _, _)
ScanFrom(files, i, acc) ==
    IF i > Len(DirOrder) THEN acc
    ELSE LET name == DirOrder[i]
             doc_id == compute_doc_id(files[name])
         IN IF files[name] = NoFile THEN ScanFrom(files, i + 1, acc)
            ELSE ScanFrom(files, i + 1,
                          [d \in DOMAIN acc \cup {doc_id} |->
                              IF d = doc_id THEN name ELSE acc[d]])

\* doc_id -> filename (the path is DOCS_DIR/filename); a later directory entry
\* with the same bytes overwrites an earlier one
scan_documents(files) == ScanFrom(files, 1, EmptyMap)

\* the registry file: missing, or a JSON object doc_id -> {filename}
load_registry(file) == IF file.state = "missing" THEN EmptyMap ELSE file.data

save_registry(reg) == [state |-> "ok", data |-> reg]

\* REGISTRY_FILE when the process dies inside save_registry: open("w") has
\* emptied the file and json.dump has written none or part of the new text
save_registry_interrupted(file, reg) == [state |-> "truncated", data |-> EmptyMap]

Restrict(map, keys) == [d \in keys |-> map[d]]

\* "deleted" taken as the whole registry
diff_registry_all_deleted(scan, reg) ==
    [new |-> Restrict(scan, DOMAIN scan \ DOMAIN reg),
     existing |-> Restrict(scan, DOMAIN scan \cap DOMAIN reg),
     deleted |-> reg]

diff_registry(scan, reg) ==
    LET scanned_ids == DOMAIN scan
        registry_ids == DOMAIN reg
    IN [new |-> Restrict(scan, scanned_ids \ registry_ids),
        existing |-> Restrict(scan, scanned_ids \cap registry_ids),
        deleted |-> Restrict(reg, registry_ids \ scanned_ids)]

\* {**a, **b}
Merge(a, b) == [d \in DOMAIN a \cup DOMAIN b |-> IF d \in DOMAIN b THEN b[d] ELSE a[d]]

\* ---------------------------------------------------------- vector store

\* The record index_chunks builds for one chunk.
StoreRecord(chunk) ==
    [id |-> chunk.id,
     document |-> chunk.text,
     metadata |-> [doc_id |-> chunk.doc_id,
                   source |-> chunk.source,
                   page |-> chunk.page,
                   chunk_index |-> chunk.metadata.chunk_index,
                   char_start |-> chunk.metadata.char_start,
                   char_end |-> chunk.metadata.char_end]]

StoreIds(store) == {r.id : r \in store}

\* a check that looks at the first chunk only
MissingDocIdFirstOnly(cs) == cs # <<>> /\ cs[1].doc_id = ""

\* some chunk fails `assert chunk.doc_id` of the loop that builds the ids
MissingDocId(cs) == \E i \in DOMAIN cs : cs[i].doc_id = ""

\* collection.upsert: a record replaces the stored record of the same id
upsert(store, batch) ==
    LET recs == {StoreRecord(batch[i]) : i \in DOMAIN batch}
    IN {r \in store : r.id \notin StoreIds(recs)} \cup recs

\* a batch that starts one chunk early
BatchOfOverlapping(cs, i) == SubSeq(cs, Max(i, 1), Min(i + BATCH_SIZE, Len(cs)))

\* chunks[i:end] with end = min(i + BATCH_SIZE, total)
BatchOf(cs, i) == SubSeq(cs, i + 1, Min(i + BATCH_SIZE, Len(cs)))

\* a delete keyed by the first chunk instead of by doc_id
delete_document_keeps_tail(store, doc_id) ==
    {r \in store : ~(r.metadata.doc_id = doc_id /\ r.metadata.chunk_index = "0")}

\* collection.delete(where={"doc_id": doc_id})
delete_document(store, doc_id) == {r \in store : r.metadata.doc_id # doc_id}

\* collection.get(where={"doc_id": doc_id}, limit=1); a response without "ids"
\* (schema drift) reads as "missing"
document_exists(store, doc_id, schemaDrift) ==
    IF schemaDrift THEN FALSE
    ELSE \E r \in store : r.metadata.doc_id = doc_id

\* ---------------------------------------------------------- keyword index

\* f"{m['doc_id']}:{m['chunk_index']}"
KeywordId(m) == m.doc_id \o ":" \o m.chunk_index

\* chunk_map of _rebuild_bm25_index: one entry per stored record (the position
\* is the record's place in collection.get(); the entries are kept as a set)
ChunkMap(store) ==
    {[id |-> KeywordId(r.metadata), text |-> r.document, metadata |-> r.metadata] : r \in store}

MapIds(map) == {e.id : e \in map}

\* What _rebuild_bm25_index leaves on disk.  failAt names the statement that
\* raises ("none": no failure): "get" collection.get, "build" BM25Okapi or the
\* chunk_map, "open" open(BM25_INDEX_FILE, "wb"), "dump" pickle.dump, which runs
\* after open() has truncated the file.  Every exception is caught and logged.
_rebuild_bm25_index(file, store, failAt) ==
    IF failAt = "get" THEN file
    ELSE IF store = {} THEN file
    ELSE IF failAt \in {"build", "open"} THEN file
    ELSE IF failAt = "dump" THEN [state |-> "corrupt", map |-> {}]
    ELSE [state |-> "ok", map |-> ChunkMap(store)]

\* the failures the rebuild can meet with this store content
RebuildFailures(store) ==
    IF store = {} THEN {"none", "get"} ELSE {"none", "get", "build", "open", "dump"}

\* ------------------------------------------------- run_indexing_pipeline

\* the keyword rebuild called before the registry is persisted
NextStageRebuildFirst(stage) ==
    CASE stage = "delete" -> "repair"
      [] stage = "repair" -> "ingest"
      [] stage = "ingest" -> "upsert"
      [] stage = "upsert" -> "register"
      [] stage = "register" -> "rebuild"
      [] stage = "rebuild" -> "save"
      [] stage = "save" -> "done"

\* Statement order of run_indexing_pipeline: the stage that follows `stage`.
NextStage(stage) ==
    CASE stage = "delete" -> "repair"
      [] stage = "repair" -> "ingest"
      [] stage = "ingest" -> "upsert"
      [] stage = "upsert" -> "register"
      [] stage = "register" -> "save"
      [] stage = "save" -> "rebuild"
      [] stage = "rebuild" -> "done"

\* the test without its "not"
NeedsRepairInverted(exists) == exists

\* if not store.document_exists(doc_id): schedule the document
NeedsRepair(exists) == ~exists

\* the registry replaced by the run's documents instead of updated
RegistryOverwrite(reg, docs) == docs

\* for doc_id, info in docs_to_index.items(): registry[doc_id] = {"filename": ...}
RegistryUpdate(reg, docs) == Merge(reg, docs)

Perms(S) == {p \in [1..Cardinality(S) -> S] : \A i, j \in DOMAIN p : p[i] = p[j] => i = j}

\* dict order of {**new_docs, **repair_docs}: the new documents (a set's order),
\* then the repaired ones
DictOrders(new, repair) ==
    {p \o q : p \in Perms(DOMAIN new), q \in Perms(DOMAIN repair \ DOMAIN new)}

VARIABLES
    fs,            \* DOCS_DIR: file name -> contents, or NoFile
    regFile,       \* REGISTRY_FILE
    vstore,        \* the Chroma collection: a set of records, one per id
    bm25File,      \* BM25_INDEX_FILE
    pc,            \* idle, a stage of the run, done (returned) or raised
    scanned, registry, new_docs, existing_docs, deleted_docs, repair_docs,
    docs_to_index,
    toDelete,      \* deleted documents the delete loop has not reached
    toCheck,       \* registry documents the repair loop has not reached
    chunks,        \* the chunks handed to index_chunks
    batchStart,    \* i of the upsert loop
    fsChanges,     \* filesystem changes so far
    faulted,       \* history: the run met a backend fault it survived
    raisedAt,      \* history: the stage whose exception ended the run
    trace,         \* history: the store operations of the run, in order
    existsResult,  \* history: what document_exists returned, per document
    bm25Fresh,     \* history: the run wrote BM25_INDEX_FILE
    rebuildFailAt, \* history: how the run's rebuild ended ("" before it)
    partialDocs,   \* history: documents a failed upsert loop left half written
    prev,          \* history: the stores as the previous clean run left them
    batches,       \* history: the chunk lists handed to collection.upsert, in order
    lastDone,      \* history: the last run that returned, and the runs begun since
    bm25_data,     \* Retriever.bm25_data: the snapshot loaded by __init__, or none
    rpc,           \* the Retriever: new, ready, a stage of retrieve, returned, raised
    candidates,    \* the dict `candidates` of retrieve, in insertion order
    result,        \* the list retrieve returned
    semStatus,     \* history: how semantic recall ended ("" before it)
    kwStatus,      \* history: how keyword recall ended
    rerankStatus,  \* history: how reranking ended
    semAccepted,   \* history: `candidates` as semantic recall left it
    kwAccepted,    \* history: the map entries keyword recall accepted, in order
    distances,     \* history: the distance computed for each fused candidate
    semReturned,   \* history: the records collection.query returned, in order
    kwScores,      \* history: the scores of top_n_indices, and the best score left out
    records,       \* chunk_documents: the records it was called with
    recIdx,        \* chunk_documents: position of the for loop (0: not started)
    start,         \* chunk_documents: `start` of the while loop
    chunk_index,   \* chunk_documents: `chunk_index` of the while loop
    runs,          \* two runs on one data directory: each run's stage and locals
    saver,         \* history: the run that called save_registry last (0: none)
    overlapped     \* history: a run started while the other was under way

stores == <<fs, regFile, vstore, bm25File>>
locals == <<scanned, registry, new_docs, existing_docs, deleted_docs, repair_docs,
            docs_to_index, toDelete, toCheck, chunks, batchStart>>
history == <<fsChanges, faulted, raisedAt, trace, existsResult, bm25Fresh,
             rebuildFailAt, partialDocs, prev, batches, lastDone>>
retriever == <<bm25_data, rpc, candidates, result, semStatus, kwStatus, rerankStatus,
               semAccepted, kwAccepted, distances, semReturned, kwScores>>
chunker == <<records, recIdx, start, chunk_index>>
racers == <<runs, saver, overlapped>>
\* what the indexing run does not touch
aside == <<retriever, chunker, racers>>
vars == <<stores, pc, locals, history, retriever, chunker, racers>>

\* get_scores has not run
NoScores == [top |-> <<>>, rest |-> 0]

\* no Retriever has been constructed
NoData == [loaded |-> FALSE, map |-> {}]

RetrieverNew ==
    /\ bm25_data = NoData /\ rpc = "new" /\ candidates = <<>> /\ result = <<>>
    /\ semStatus = "" /\ kwStatus = "" /\ rerankStatus = ""
    /\ semAccepted = <<>> /\ kwAccepted = <<>> /\ distances = <<>>
    /\ semReturned = <<>> /\ kwScores = NoScores

\* chunk_documents has not been called on its own
ChunkerIdle == records = <<>> /\ recIdx = 0 /\ start = 0 /\ chunk_index = 0

RunIds == {1, 2}

\* a run that has not started
IdleRun == [pc |-> "idle", scanned |-> EmptyMap, registry |-> EmptyMap,
            new_docs |-> EmptyMap, deleted_docs |-> EmptyMap, docs_to_index |-> EmptyMap]

\* no second process: run_indexing_pipeline is called by one process at a time
NoRace == runs = [r \in RunIds |-> IdleRun] /\ saver = 0 /\ overlapped = FALSE

\* no run has returned yet
NoneDone == [valid |-> FALSE, clean |-> FALSE, fs |-> [n \in Names |-> NoFile],
             ids |-> {}, docs |-> {}, begun |-> 0]

NoPrev == [valid |-> FALSE, reg |-> [state |-> "missing", data |-> EmptyMap],
           ids |-> {}, bm25 |-> [state |-> "missing", map |-> {}]]

Init ==
    /\ fs = [n \in Names |-> NoFile]
    /\ regFile = [state |-> "missing", data |-> EmptyMap]
    /\ vstore = {}
    /\ bm25File = [state |-> "missing", map |-> {}]
    /\ pc = "idle"
    /\ scanned = EmptyMap /\ registry = EmptyMap /\ new_docs = EmptyMap
    /\ existing_docs = EmptyMap /\ deleted_docs = EmptyMap
    /\ repair_docs = EmptyMap /\ docs_to_index = EmptyMap
    /\ toDelete = {} /\ toCheck = {} /\ chunks = <<>> /\ batchStart = 0
    /\ fsChanges = 0 /\ faulted = FALSE /\ raisedAt = "" /\ trace = <<>>
    /\ existsResult = EmptyMap /\ bm25Fresh = FALSE /\ prev = NoPrev
    /\ rebuildFailAt = "" /\ partialDocs = {}
    /\ batches = <<>> /\ lastDone = NoneDone
    /\ RetrieverNew /\ ChunkerIdle /\ NoRace

Between == pc \in {"idle", "done", "raised", "crashed"}

\* The environment adds, removes or replaces a file between two runs.
FsChange ==
    /\ Between
    /\ fsChanges < MaxFsChanges
    /\ \E n \in Names, c \in Contents \cup {NoFile} :
          /\ c # fs[n]
          /\ fs' = [fs EXCEPT ![n] = c]
    /\ fsChanges' = fsChanges + 1
    /\ pc' = "idle"
    /\ partialDocs' = {}
    /\ UNCHANGED <<aside, batches, lastDone, regFile, vstore, bm25File, locals, faulted, raisedAt, trace,
                   existsResult, bm25Fresh, rebuildFailAt, prev>>

\* Lines 78-92: scan, load, diff.  A run that starts right after a clean run,
\* with no filesystem change in between, remembers what that run left.
Begin ==
    /\ Between
    /\ regFile.state # "truncated"
    /\ LET scan == scan_documents(fs)
           reg == load_registry(regFile)
           diff == diff_registry(scan, reg)
       IN /\ scanned' = scan
          /\ registry' = reg
          /\ new_docs' = diff.new
          /\ existing_docs' = diff.existing
          /\ deleted_docs' = diff.deleted
          /\ toDelete' = DOMAIN diff.deleted
    /\ toCheck' = {} /\ repair_docs' = EmptyMap /\ docs_to_index' = EmptyMap
    /\ chunks' = <<>> /\ batchStart' = 0
    /\ pc' = "delete"
    /\ prev' = IF pc = "done" /\ ~faulted
               THEN [valid |-> TRUE, reg |-> regFile, ids |-> StoreIds(vstore),
                     bm25 |-> bm25File]
               ELSE NoPrev
    /\ faulted' = FALSE /\ raisedAt' = "" /\ trace' = <<>>
    /\ existsResult' = EmptyMap /\ bm25Fresh' = FALSE /\ rebuildFailAt' = ""
    /\ batches' = <<>>
    /\ lastDone' = [lastDone EXCEPT !.begun = Min(@ + 1, 2)]
    /\ UNCHANGED <<aside, stores, fsChanges, partialDocs>>

Raise(stage) ==
    /\ pc' = "raised"
    /\ raisedAt' = stage

\* Lines 81-84 on a registry file that is not a JSON document: json.load raises.
LoadRaises ==
    /\ Between
    /\ regFile.state = "truncated"
    /\ scanned' = scan_documents(fs)
    /\ registry' = EmptyMap /\ new_docs' = EmptyMap /\ existing_docs' = EmptyMap
    /\ deleted_docs' = EmptyMap /\ toDelete' = {}
    /\ toCheck' = {} /\ repair_docs' = EmptyMap /\ docs_to_index' = EmptyMap
    /\ chunks' = <<>> /\ batchStart' = 0
    /\ Raise("load")
    /\ prev' = NoPrev
    /\ faulted' = TRUE /\ trace' = <<>>
    /\ existsResult' = EmptyMap /\ bm25Fresh' = FALSE /\ rebuildFailAt' = ""
    /\ batches' = <<>>
    /\ lastDone' = [lastDone EXCEPT !.begun = Min(@ + 1, 2)]
    /\ UNCHANGED <<aside, stores, fsChanges, partialDocs>>

\* Lines 95-98, one iteration: delete the vectors, drop the registry entry.
DeleteDocument ==
    /\ pc = "delete"
    /\ \E d \in toDelete :
          /\ vstore' = delete_document(vstore, d)
          /\ registry' = Restrict(registry, DOMAIN registry \ {d})
          /\ toDelete' = toDelete \ {d}
    /\ trace' = Append(trace, "delete")
    /\ UNCHANGED <<aside, batches, lastDone, fs, regFile, bm25File, pc, scanned, new_docs, existing_docs, deleted_docs,
                   repair_docs, docs_to_index, toCheck, chunks, batchStart,
                   fsChanges, faulted, raisedAt, existsResult, bm25Fresh,
                   rebuildFailAt, partialDocs, prev>>

\* Line 97 raises: nothing in the loop catches it.
DeleteRaises ==
    /\ pc = "delete"
    /\ toDelete # {}
    /\ Raise("delete")
    /\ trace' = Append(trace, "delete")
    /\ UNCHANGED <<aside, batches, lastDone, stores, locals, fsChanges, faulted, existsResult, bm25Fresh,
                   rebuildFailAt, partialDocs, prev>>

EndDeleteLoop ==
    /\ pc = "delete"
    /\ toDelete = {}
    /\ toCheck' = DOMAIN registry
    /\ pc' = NextStage("delete")
    /\ UNCHANGED <<aside, stores, scanned, registry, new_docs, existing_docs, deleted_docs, repair_docs,
                   docs_to_index, toDelete, chunks, batchStart, history>>

\* Lines 102-107, one iteration.
RepairDetect ==
    /\ pc = "repair"
    /\ \E d \in toCheck :
       \E drift \in IF document_exists(vstore, d, FALSE) THEN BOOLEAN ELSE {FALSE} :
          LET exists == document_exists(vstore, d, drift)
              info == IF d \in DOMAIN scanned THEN scanned[d] ELSE NoneInfo
          IN /\ existsResult' = Merge(existsResult, [x \in {d} |-> exists])
             /\ repair_docs' = IF NeedsRepair(exists)
                               THEN Merge(repair_docs, [x \in {d} |-> info])
                               ELSE repair_docs
             /\ toCheck' = toCheck \ {d}
             /\ faulted' = (faulted \/ drift)
    /\ trace' = Append(trace, "check")
    /\ UNCHANGED <<aside, batches, lastDone, stores, pc, scanned, registry, new_docs, existing_docs, deleted_docs,
                   docs_to_index, toDelete, chunks, batchStart, fsChanges,
                   raisedAt, bm25Fresh,
                   rebuildFailAt, partialDocs, prev>>

\* collection.get of document_exists raises.
RepairDetectRaises ==
    /\ pc = "repair"
    /\ toCheck # {}
    /\ Raise("repair")
    /\ trace' = Append(trace, "check")
    /\ UNCHANGED <<aside, batches, lastDone, stores, locals, fsChanges, faulted, existsResult, bm25Fresh,
                   rebuildFailAt, partialDocs, prev>>

\* Lines 110-112 and 122-123.
EndRepairLoop ==
    /\ pc = "repair"
    /\ toCheck = {}
    /\ docs_to_index' = Merge(new_docs, repair_docs)
    /\ pc' = IF DOMAIN docs_to_index' # {} THEN NextStage("repair") ELSE NextStage("register")
    /\ UNCHANGED <<aside, stores, scanned, registry, new_docs, existing_docs, deleted_docs, repair_docs,
                   toDelete, toCheck, chunks, batchStart, history>>

\* index_chunks before its batch loop (embed_store.py lines 57-86): the return
\* on no chunks, the doc_id assertion over every chunk, the embedding of the
\* texts (encode may raise).
IndexChunksEnter(cs, encodeRaises) ==
    IF cs = <<>>
    THEN /\ ~encodeRaises
         /\ pc' = NextStage("upsert")
         /\ UNCHANGED raisedAt
    ELSE IF MissingDocId(cs)
         THEN /\ ~encodeRaises
              /\ Raise("assert")
         ELSE IF encodeRaises
              THEN Raise("embed")
              ELSE /\ pc' = NextStage("ingest")
                   /\ UNCHANGED raisedAt

\* Lines 113-115 up to the upsert loop: ingest, chunk, and the entry of
\* index_chunks.  A document whose info is None makes info["path"] raise
\* outside ingest's try.
IngestAndChunk ==
    /\ pc = "ingest"
    /\ \E order \in DictOrders(new_docs, repair_docs), encodeRaises \in BOOLEAN :
          IF \E d \in DOMAIN docs_to_index : docs_to_index[d] = NoneInfo
          THEN /\ ~encodeRaises
               /\ Raise("ingest")
               /\ UNCHANGED chunks
          ELSE LET cs == chunk_documents(IngestFrom(order, docs_to_index, fs))
               IN /\ chunks' = cs
                  /\ IndexChunksEnter(cs, encodeRaises)
    /\ batchStart' = 0
    /\ UNCHANGED <<aside, batches, lastDone, stores, scanned, registry, new_docs, existing_docs, deleted_docs, repair_docs,
                   docs_to_index, toDelete, toCheck, fsChanges, faulted, trace,
                   existsResult, bm25Fresh,
                   rebuildFailAt, partialDocs, prev>>

\* Lines 94-109 of embed_store.py, one iteration of the batch loop.
UpsertBatch ==
    /\ pc = "upsert"
    /\ vstore' = upsert(vstore, BatchOf(chunks, batchStart))
    /\ batches' = Append(batches, BatchOf(chunks, batchStart))
    /\ batchStart' = batchStart + BATCH_SIZE
    /\ pc' = IF batchStart' < Len(chunks) THEN pc ELSE NextStage("upsert")
    /\ trace' = Append(trace, "upsert")
    /\ UNCHANGED <<aside, lastDone, fs, regFile, bm25File, scanned, registry, new_docs, existing_docs, deleted_docs,
                   repair_docs, docs_to_index, toDelete, toCheck, chunks, fsChanges,
                   faulted, raisedAt, existsResult, bm25Fresh,
                   rebuildFailAt, partialDocs, prev>>

\* collection.upsert raises: the batches before it stay committed.
UpsertRaises ==
    /\ pc = "upsert"
    /\ Raise("upsert")
    /\ trace' = Append(trace, "upsert")
    /\ partialDocs' = partialDocs \cup
          {d \in DocIds : /\ \E i \in 1..batchStart : chunks[i].doc_id = d
                          /\ \E i \in (batchStart + 1)..Len(chunks) : chunks[i].doc_id = d}
    /\ UNCHANGED <<aside, batches, lastDone, stores, locals, fsChanges, faulted, existsResult, bm25Fresh,
                   rebuildFailAt, prev>>

\* Lines 118-121.
UpdateRegistry ==
    /\ pc = "register"
    /\ registry' = RegistryUpdate(registry, docs_to_index)
    /\ pc' = NextStage("register")
    /\ UNCHANGED <<aside, stores, scanned, new_docs, existing_docs, deleted_docs, repair_docs,
                   docs_to_index, toDelete, toCheck, chunks, batchStart, history>>

\* Line 126.
SaveRegistry ==
    /\ pc = "save"
    /\ regFile' = save_registry(registry)
    /\ pc' = NextStage("save")
    /\ trace' = Append(trace, "save")
    /\ UNCHANGED <<aside, batches, lastDone, fs, vstore, bm25File, locals, fsChanges, faulted, raisedAt,
                   existsResult, bm25Fresh,
                   rebuildFailAt, partialDocs, prev>>

\* The process dies inside save_registry (killed, power loss).
SaveCrashes ==
    /\ pc = "save"
    /\ regFile' = save_registry_interrupted(regFile, registry)
    /\ pc' = "crashed"
    /\ faulted' = TRUE
    /\ trace' = Append(trace, "save")
    /\ UNCHANGED <<aside, batches, lastDone, fs, vstore, bm25File, locals, fsChanges, raisedAt,
                   existsResult, bm25Fresh, rebuildFailAt, partialDocs, prev>>

\* Line 129, and the return of the run.
RebuildIndex ==
    /\ pc = "rebuild"
    /\ \E failAt \in RebuildFailures(vstore) :
          /\ bm25File' = _rebuild_bm25_index(bm25File, vstore, failAt)
          /\ faulted' = (faulted \/ failAt # "none")
          /\ bm25Fresh' = (failAt = "none" /\ vstore # {})
          /\ rebuildFailAt' = failAt
    /\ pc' = NextStage("rebuild")
    /\ trace' = Append(trace, "rebuild")
    /\ lastDone' = [valid |-> TRUE, clean |-> ~faulted', fs |-> fs,
                    ids |-> StoreIds(vstore),
                    docs |-> {d \in DocIds : document_exists(vstore, d, FALSE)},
                    begun |-> 0]
    /\ UNCHANGED <<aside, batches, fs, regFile, vstore, locals, fsChanges, raisedAt, existsResult,
                   partialDocs, prev>>

Next ==
    \/ FsChange
    \/ Begin
    \/ LoadRaises
    \/ DeleteDocument
    \/ DeleteRaises
    \/ EndDeleteLoop
    \/ RepairDetect
    \/ RepairDetectRaises
    \/ EndRepairLoop
    \/ IngestAndChunk
    \/ UpsertBatch
    \/ UpsertRaises
    \/ UpdateRegistry
    \/ SaveRegistry
    \/ SaveCrashes
    \/ RebuildIndex

Spec == Init /\ [][Next]_vars

\* ------------------------------------------ VectorStore.index_chunks alone

\* A Chunk as the caller of index_chunks may build it; doc_id may be empty.
SampleChunk(doc_id, idx) ==
    [id |-> ChunkId(doc_id, NoPage, idx),
     doc_id |-> doc_id,
     text |-> <<"x">>,
     source |-> "b.txt",
     page |-> NoPage,
     metadata |-> [chunk_index |-> ToString(idx),
                   char_start |-> "0",
                   char_end |-> "1"]]

SampleChunks ==
    {SampleChunk("d1", 0), SampleChunk("d1", 1), SampleChunk("d2", 0), SampleChunk("d2", 1),
     SampleChunk("d2", 2), SampleChunk("", 0)}

ChunkLists == UNION {[1..n -> SampleChunks] : n \in 0..MaxChunks}

\* index_chunks is about to be called with any chunk list, on an empty
\* collection or on one that holds a chunk already.
InitIndexChunks ==
    /\ fs = [n \in Names |-> NoFile]
    /\ regFile = [state |-> "missing", data |-> EmptyMap]
    /\ vstore \in {{}, upsert({}, <<SampleChunk("d1", 0)>>)}
    /\ bm25File = [state |-> "missing", map |-> {}]
    /\ pc = "index"
    /\ scanned = EmptyMap /\ registry = EmptyMap /\ new_docs = EmptyMap
    /\ existing_docs = EmptyMap /\ deleted_docs = EmptyMap
    /\ repair_docs = EmptyMap /\ docs_to_index = EmptyMap
    /\ toDelete = {} /\ toCheck = {} /\ batchStart = 0
    /\ chunks \in ChunkLists
    /\ fsChanges = 0 /\ faulted = FALSE /\ raisedAt = "" /\ trace = <<>>
    /\ existsResult = EmptyMap /\ bm25Fresh = FALSE
    /\ prev = [NoPrev EXCEPT !.ids = StoreIds(vstore)]
    /\ rebuildFailAt = "" /\ partialDocs = {}
    /\ batches = <<>> /\ lastDone = NoneDone
    /\ RetrieverNew /\ ChunkerIdle /\ NoRace

\* Lines 52-86 of embed_store.py.
IndexChunks ==
    /\ pc = "index"
    /\ \E encodeRaises \in BOOLEAN : IndexChunksEnter(chunks, encodeRaises)
    /\ UNCHANGED <<aside, batches, lastDone, stores, locals, fsChanges, faulted, trace, existsResult,
                   bm25Fresh, rebuildFailAt, partialDocs, prev>>

NextIndexChunks ==
    \/ IndexChunks
    \/ UpsertBatch
    \/ UpsertRaises

SpecIndexChunks == InitIndexChunks /\ [][NextIndexChunks]_vars

\* ------------------------------------------------------------ properties

HasVectors(d) == document_exists(vstore, d, FALSE)

\* the persisted Registry, as a reader sees it
PersistedRegistry == load_registry(regFile)

\* the documents whose chunks the run handed to the upsert loop
IndexedDocs == {chunks[i].doc_id : i \in DOMAIN chunks}

\* the run returned
Completed == pc = "done"

\* C1: after a run that completes, every document the run indexed (it put
\* chunks of it into the VectorIndex) has vectors and is a key of the persisted
\* Registry, and every document the run classified as deleted has no vector and
\* is not in the persisted Registry.
C1_IndexedAndDeleted ==
    Completed =>
        /\ \A d \in IndexedDocs : HasVectors(d) /\ d \in DOMAIN PersistedRegistry
        /\ \A d \in DOMAIN deleted_docs :
              ~HasVectors(d) /\ d \notin DOMAIN PersistedRegistry

C1_Witness ==
    /\ Completed
    /\ IndexedDocs # {}
    /\ DOMAIN deleted_docs # {}

\* C2: at the end of every completed run (here: one that met no backend
\* fault), a doc_id is in the Registry if and
\* only if the VectorIndex holds at least one chunk for it (a document whose
\* ingestion failed or produced no chunks is not recorded).
C2_RegistryIffVectors ==
    (Completed /\ ~faulted) => \A d \in DocIds : (d \in DOMAIN PersistedRegistry) <=> HasVectors(d)

\* C3: a run that follows a completed run, with no filesystem change in between
\* and no backend fault in either, leaves the same Registry, the same
\* VectorIndex chunk-id set and an equal keyword snapshot.
C3_Idempotent ==
    (Completed /\ prev.valid /\ ~faulted) =>
        /\ regFile = prev.reg
        /\ StoreIds(vstore) = prev.ids
        /\ bm25File = prev.bm25

C3_Witness ==
    /\ Completed /\ prev.valid /\ ~faulted
    /\ DOMAIN docs_to_index # {}
    /\ vstore # {}
    /\ bm25File.state = "ok"

\* C4: right after a keyword rebuild that did not fail, the chunk ids of the
\* persisted keyword map are the chunk ids of the VectorIndex, whatever the
\* VectorIndex holds (multi-page documents, nothing at all).
SnapshotIds == IF bm25File.state = "ok" THEN MapIds(bm25File.map) ELSE {}

C4_KeywordMirror ==
    (Completed /\ ~faulted) => SnapshotIds = StoreIds(vstore)

\* C5: after a run whose rebuild step did not fail, the snapshot on disk was
\* written by that run, whatever the VectorIndex contains.
C5_SnapshotReplaced == (Completed /\ ~faulted /\ rebuildFailAt = "none") => bm25Fresh

\* C6: in one run every delete comes before every repair-detect check and
\* every upsert, every upsert before the Registry is persisted, and that before
\* the keyword rebuild, which reads the VectorIndex as the upserts left it.
StageRank(op) ==
    CASE op = "delete" -> 1
      [] op = "check" -> 2
      [] op = "upsert" -> 2
      [] op = "save" -> 3
      [] op = "rebuild" -> 4

C6_StageOrder ==
    /\ \A i, j \in DOMAIN trace : i < j => StageRank(trace[i]) <= StageRank(trace[j])
    /\ \A i, j \in DOMAIN trace :
          (i # j /\ StageRank(trace[i]) >= 3) => trace[i] # trace[j]
    /\ (Completed /\ bm25Fresh) => bm25File.map = ChunkMap(vstore)

Ops == {trace[i] : i \in DOMAIN trace}

C6_Witness ==
    /\ Completed
    /\ Ops = {"delete", "check", "upsert", "save", "rebuild"}
    /\ bm25Fresh

\* C7: a document in the Registry and on the filesystem is handed to
\* ingest/chunk/upsert, with the scanned info of a new document, exactly when
\* document_exists returned false for it at repair-detect time.
Existing == DOMAIN scanned \cap DOMAIN PersistedRegistry

C7_RepairScheduling ==
    pc \in {"ingest", "upsert", "register"} =>
        /\ DOMAIN existsResult = Existing
        /\ \A d \in Existing :
              IF existsResult[d]
              THEN d \notin DOMAIN docs_to_index
              ELSE d \in DOMAIN docs_to_index /\ docs_to_index[d] = scanned[d]
        /\ pc = "ingest" => \A d \in Existing : ~HasVectors(d) => ~existsResult[d]

C7_Witness ==
    /\ pc = "ingest"
    /\ \E d \in Existing : ~existsResult[d] /\ ~HasVectors(d)
    /\ \E d \in Existing : existsResult[d]

\* the ids of the chunks ingest and chunking make of document d as scanned
ExpectedIds(d) ==
    LET cs == chunk_documents(IngestOne(d, scanned[d], fs[scanned[d]]))
    IN {cs[i].id : i \in DOMAIN cs}

\* C8: once a run failed after upserting only some of a registered document's
\* batches, later runs with the filesystem unchanged re-index the document:
\* after two more runs that complete without fault, all its chunks are stored.
C8_PartialWriteHealed ==
    (Completed /\ prev.valid /\ ~faulted) =>
        \A d \in partialDocs \cap Existing : ExpectedIds(d) \subseteq StoreIds(vstore)

\* C9: a delete_document failure in step 3 does not end the run.
C9_DeleteFailureContinues == raisedAt # "delete"

\* C10: when the keyword rebuild fails the run still returns, and the Registry
\* file, the VectorIndex and the previously persisted keyword snapshot are what
\* they were before the attempt.
C10_RebuildFailureHarmless ==
    [][(pc = "rebuild" /\ bm25File.state = "ok" /\ rebuildFailAt' \notin {"", "none"}) =>
          /\ pc' = "done"
          /\ regFile' = regFile
          /\ vstore' = vstore
          /\ bm25File' = bm25File]_vars

\* --------------------------------------------------- diff_registry alone

\* doc_id -> filename maps over the model's documents
DocMaps == UNION {[S -> Names] : S \in SUBSET DocIds}

\* diff_registry is about to be called with any two maps.
InitDiff ==
    /\ fs = [n \in Names |-> NoFile]
    /\ regFile = [state |-> "missing", data |-> EmptyMap]
    /\ vstore = {}
    /\ bm25File = [state |-> "missing", map |-> {}]
    /\ pc = "diff"
    /\ scanned \in DocMaps /\ registry \in DocMaps
    /\ new_docs = EmptyMap /\ existing_docs = EmptyMap /\ deleted_docs = EmptyMap
    /\ repair_docs = EmptyMap /\ docs_to_index = EmptyMap
    /\ toDelete = {} /\ toCheck = {} /\ chunks = <<>> /\ batchStart = 0
    /\ fsChanges = 0 /\ faulted = FALSE /\ raisedAt = "" /\ trace = <<>>
    /\ existsResult = EmptyMap /\ bm25Fresh = FALSE /\ prev = NoPrev
    /\ rebuildFailAt = "" /\ partialDocs = {}
    /\ batches = <<>> /\ lastDone = NoneDone
    /\ RetrieverNew /\ ChunkerIdle /\ NoRace

\* Lines 69-94 of registry.py.
DiffRegistry ==
    /\ pc = "diff"
    /\ LET diff == diff_registry(scanned, registry)
       IN /\ new_docs' = diff.new
          /\ existing_docs' = diff.existing
          /\ deleted_docs' = diff.deleted
    /\ pc' = "diffed"
    /\ UNCHANGED <<aside, stores, scanned, registry, repair_docs, docs_to_index,
                   toDelete, toCheck, chunks, batchStart, history>>

NextDiff == DiffRegistry

SpecDiff == InitDiff /\ [][NextDiff]_vars

\* ---------------------------------------------------------- the Retriever

\* The dict `candidates`: a sequence of [key, chunk] in insertion order.
Keys(d) == {d[i].key : i \in DOMAIN d}

\* a list that appends whatever the key
DictAppend(d, k, v) == Append(d, [key |-> k, chunk |-> v])

\* d[k] = v: a present key keeps its place and takes the new value
DictSet(d, k, v) ==
    IF k \in Keys(d)
    THEN [i \in DOMAIN d |-> IF d[i].key = k THEN [key |-> k, chunk |-> v] ELSE d[i]]
    ELSE Append(d, [key |-> k, chunk |-> v])

\* f"{meta['doc_id']}:{meta['chunk_index']}"
CandidateId(meta) == meta.doc_id \o ":" \o meta.chunk_index

\* the Chunk built from one record of collection.query
SemanticChunk(rec) ==
    [id |-> CandidateId(rec.metadata),
     doc_id |-> rec.metadata.doc_id,
     text |-> rec.document,
     source |-> rec.metadata.source,
     page |-> rec.metadata.page,
     metadata |-> rec.metadata]

\* the Chunk built from one entry of the keyword map
KeywordChunk(mapped) ==
    [id |-> mapped.id,
     doc_id |-> mapped.metadata.doc_id,
     text |-> mapped.text,
     source |-> mapped.metadata.source,
     page |-> mapped.metadata.page,
     metadata |-> mapped.metadata]

\* the loop over the query's records
RECURSIVE AddSemantic(_, _)
AddSemantic(cands, res) ==
    IF res = <<>> THEN cands
    ELSE AddSemantic(DictSet(cands, CandidateId(Head(res).metadata), SemanticChunk(Head(res))),
                     Tail(res))

\* the loop over top_n_indices without its `not in candidates` test
RECURSIVE AddKeywordOverwrite(_, _, _)
AddKeywordOverwrite(cands, top, scores) ==
    IF top = <<>> THEN cands
    ELSE LET mapped == Head(top)
         IN IF scores[mapped] <= 0 THEN AddKeywordOverwrite(cands, Tail(top), scores)
            ELSE AddKeywordOverwrite(DictSet(cands, mapped.id, KeywordChunk(mapped)),
                                     Tail(top), scores)

\* the loop over top_n_indices
RECURSIVE AddKeyword(_, _, _)
AddKeyword(cands, top, scores) ==
    IF top = <<>> THEN cands
    ELSE LET mapped == Head(top)
         IN IF scores[mapped] <= 0 THEN AddKeyword(cands, Tail(top), scores)
            ELSE IF mapped.id \notin Keys(cands)
                 THEN AddKeyword(DictSet(cands, mapped.id, KeywordChunk(mapped)),
                                 Tail(top), scores)
                 ELSE AddKeyword(cands, Tail(top), scores)

DistinctSeqs(S, n) == {p \in [1..n -> S] : \A i, j \in 1..n : p[i] = p[j] => i = j}

\* a query that empties the collection
QueriedEmptied(store) == {}

\* the collection after collection.query: a read leaves it as it was
Queried(store) == store

\* collection.query(n_results=TOP_K_RETRIEVAL): the nearest records, nearest
\* first; which ones they are depends on the query
QueryResults(store) == DistinctSeqs(store, Min(TOP_K_RETRIEVAL, Cardinality(store)))

\* bm25.get_scores: no match, or a match
BM25Scores == {0, 1}

\* np.argsort(scores)[::-1][:TOP_K_RETRIEVAL]: the best-scored entries, best
\* first, equal scores in any order
TopIndices(map, scores) ==
    {p \in DistinctSeqs(map, Min(TOP_K_RETRIEVAL, Cardinality(map))) :
        /\ \A i, j \in DOMAIN p : i < j => scores[p[i]] >= scores[p[j]]
        /\ \A e \in map : (\A i \in DOMAIN p : p[i] # e) =>
                              \A i \in DOMAIN p : scores[e] <= scores[p[i]]}

MaxOf(S) == IF S = {} THEN 0 ELSE CHOOSE n \in S : \A k \in S : k <= n

\* what the loop sees of `scores`: the score at each of top_n_indices, and the
\* best score among the entries argsort left out
ScoreView(map, scores, top) ==
    [top |-> [i \in DOMAIN top |-> [entry |-> top[i], score |-> scores[top[i]]]],
     rest |-> MaxOf({scores[e] : e \in {x \in map : \A i \in DOMAIN top : top[i] # x}})]

\* raw scores of the cross-encoder
Logits == {-1, 0, 1}

\* 1 / (1 + np.exp(-x)), in thousandths
Sigmoid(x) ==
    CASE x = -1 -> 269
      [] x = 0 -> 500
      [] x = 1 -> 731

\* float(1.0 - score)
Distance(x) == One - Sigmoid(x)

\* x placed behind every element whose score is not greater
InsertByScore(sorted, x) ==
    LET before == {i \in DOMAIN sorted : sorted[i].score <= x.score}
        k == Cardinality(before)
    IN SubSeq(sorted, 1, k) \o <<x>> \o SubSeq(sorted, k + 1, Len(sorted))

\* x placed behind every element whose score is not smaller
InsertByScoreDescending(sorted, x) ==
    LET before == {i \in DOMAIN sorted : sorted[i].score >= x.score}
        k == Cardinality(before)
    IN SubSeq(sorted, 1, k) \o <<x>> \o SubSeq(sorted, k + 1, Len(sorted))

\* reranked.sort(key=lambda x: x.score), largest first
RECURSIVE SortByScoreDescending(_)
SortByScoreDescending(seq) ==
    IF seq = <<>> THEN <<>>
    ELSE InsertByScoreDescending(SortByScoreDescending(SubSeq(seq, 1, Len(seq) - 1)),
                                 seq[Len(seq)])

\* reranked.sort(key=lambda x: x.score): ascending and stable
RECURSIVE SortByScore(_)
SortByScore(seq) ==
    IF seq = <<>> THEN <<>>
    ELSE InsertByScore(SortByScore(SubSeq(seq, 1, Len(seq) - 1)), seq[Len(seq)])

\* lines 149-168: score, sort, slice
Rerank(cands, logits) ==
    LET reranked == [i \in DOMAIN cands |->
                        [chunk |-> cands[i].chunk, score |-> Distance(logits[i])]]
    IN Slice(SortByScore(reranked), 0, TOP_K_RERANKED)

\* the last candidates instead of the first
FallbackLast(cands) ==
    [i \in 1..Min(TOP_K_RERANKED, Len(cands)) |->
        [chunk |-> cands[Len(cands) + 1 - i].chunk, score |-> NeutralScore]]

\* line 175
Fallback(cands) ==
    [i \in 1..Min(TOP_K_RERANKED, Len(cands)) |->
        [chunk |-> cands[i].chunk, score |-> NeutralScore]]

\* the rerank stage left without its handler
RetrieveHandlesNoRerank == {"semantic", "keyword"}

\* the keyword stage left without its handler
RetrieveHandlesNoKeyword == {"semantic", "rerank"}

\* the stages of retrieve wrapped in try/except Exception
RetrieveHandles == {"semantic", "keyword", "rerank"}

\* the collection after a clean run over the files on an empty system
IndexedStore(files) ==
    LET scan == scan_documents(files)
        order == CHOOSE p \in Perms(DOMAIN scan) : TRUE
    IN upsert({}, chunk_documents(IngestFrom(order, scan, files)))

RetrieveStores == {IndexedStore(f) : f \in [Names -> Contents \cup {NoFile}]}

\* BM25_INDEX_FILE: never written, cut short by a failed dump, or the map of
\* some collection (not always of the current one)
RetrieveSnapshots ==
    {[state |-> "missing", map |-> {}], [state |-> "corrupt", map |-> {}]}
    \cup {[state |-> "ok", map |-> ChunkMap(st)] : st \in RetrieveStores \ {{}}}

\* A Retriever is about to be constructed over any collection and snapshot.
InitRetrieve ==
    /\ fs = [n \in Names |-> NoFile]
    /\ regFile = [state |-> "missing", data |-> EmptyMap]
    /\ vstore \in RetrieveStores
    /\ bm25File \in RetrieveSnapshots
    /\ pc = "idle"
    /\ scanned = EmptyMap /\ registry = EmptyMap /\ new_docs = EmptyMap
    /\ existing_docs = EmptyMap /\ deleted_docs = EmptyMap
    /\ repair_docs = EmptyMap /\ docs_to_index = EmptyMap
    /\ toDelete = {} /\ toCheck = {} /\ chunks = <<>> /\ batchStart = 0
    /\ fsChanges = 0 /\ faulted = FALSE /\ raisedAt = "" /\ trace = <<>>
    /\ existsResult = EmptyMap /\ bm25Fresh = FALSE /\ prev = NoPrev
    /\ rebuildFailAt = "" /\ partialDocs = {}
    /\ batches = <<>> /\ lastDone = NoneDone
    /\ RetrieverNew /\ ChunkerIdle /\ NoRace

notRetriever == <<stores, pc, locals, history, chunker, racers>>
notQueried == <<fs, regFile, bm25File, pc, locals, history, chunker, racers>>

\* Retriever.__init__, lines 46-55: pickle.load of a snapshot that was cut
\* short raises, and no Retriever exists.
Construct ==
    /\ rpc = "new"
    /\ IF bm25File.state = "corrupt"
       THEN /\ rpc' = "unbuilt"
            /\ UNCHANGED bm25_data
       ELSE /\ rpc' = "ready"
            /\ bm25_data' = IF bm25File.state = "ok"
                            THEN [loaded |-> TRUE, map |-> bm25File.map]
                            ELSE NoData
    /\ UNCHANGED <<notRetriever, candidates, result, semStatus, kwStatus,
                   rerankStatus, semAccepted, kwAccepted, distances, semReturned,
                   kwScores>>

\* Lines 64-92.  encode or collection.query may raise, before any candidate.
SemanticRecall ==
    /\ rpc = "ready"
    /\ \E failAt \in {"none", "encode", "query"} :
          IF failAt = "none"
          THEN \E res \in QueryResults(vstore) :
                  /\ candidates' = AddSemantic(<<>>, res)
                  /\ semReturned' = res
                  /\ vstore' = Queried(vstore)
                  /\ semStatus' = "ok"
                  /\ rpc' = "keyword"
          ELSE /\ candidates' = <<>>
               /\ semReturned' = <<>>
               /\ UNCHANGED vstore
               /\ semStatus' = "failed"
               /\ rpc' = IF "semantic" \in RetrieveHandles THEN "keyword" ELSE "raised"
    /\ semAccepted' = candidates'
    /\ UNCHANGED <<notQueried, bm25_data, result, kwStatus, rerankStatus,
                   kwAccepted, distances, kwScores>>

\* Lines 97-127.  get_scores may raise, before any candidate of this stage.
KeywordRecall ==
    /\ rpc = "keyword"
    /\ IF ~bm25_data.loaded
       THEN /\ kwStatus' = "unavailable"
            /\ rpc' = "rerank"
            /\ UNCHANGED <<candidates, kwAccepted, kwScores>>
       ELSE \E failAt \in {"none", "scores"} :
               IF failAt = "none"
               THEN \E scores \in [bm25_data.map -> BM25Scores] :
                    \E top \in TopIndices(bm25_data.map, scores) :
                       /\ candidates' = AddKeyword(candidates, top, scores)
                       /\ kwAccepted' = SelectSeq(top, LAMBDA e : scores[e] > 0)
                       /\ kwScores' = ScoreView(bm25_data.map, scores, top)
                       /\ kwStatus' = "ok"
                       /\ rpc' = "rerank"
               ELSE /\ kwStatus' = "failed"
                    /\ rpc' = IF "keyword" \in RetrieveHandles THEN "rerank" ELSE "raised"
                    /\ UNCHANGED <<candidates, kwAccepted, kwScores>>
    /\ UNCHANGED <<notRetriever, bm25_data, result, semStatus, rerankStatus,
                   semAccepted, distances, semReturned>>

\* Lines 129-175.
RerankAndReturn ==
    /\ rpc = "rerank"
    /\ IF candidates = <<>>
       THEN /\ result' = <<>>
            /\ rerankStatus' = "skipped"
            /\ rpc' = "returned"
            /\ UNCHANGED distances
       ELSE \E predictRaises \in BOOLEAN :
               IF predictRaises
               THEN /\ rerankStatus' = "failed"
                    /\ UNCHANGED distances
                    /\ IF "rerank" \in RetrieveHandles
                       THEN /\ result' = Fallback(candidates)
                            /\ rpc' = "returned"
                       ELSE /\ rpc' = "raised"
                            /\ UNCHANGED result
               ELSE \E logits \in [DOMAIN candidates -> Logits] :
                       /\ distances' = [i \in DOMAIN candidates |-> Distance(logits[i])]
                       /\ result' = Rerank(candidates, logits)
                       /\ rerankStatus' = "ok"
                       /\ rpc' = "returned"
    /\ UNCHANGED <<notRetriever, bm25_data, candidates, semStatus, kwStatus,
                   semAccepted, kwAccepted, semReturned, kwScores>>

NextRetrieve ==
    \/ Construct
    \/ SemanticRecall
    \/ KeywordRecall
    \/ RerankAndReturn

SpecRetrieve == InitRetrieve /\ [][NextRetrieve]_vars

\* -------------------------------------------------- chunk_documents alone

\* the texts ingest hands on: normalised and not empty
PageTexts ==
    {_normalize(t) : t \in UNION {[1..n -> {"x", " "}] : n \in 1..MaxTextLen}} \ {<<>>}

RecordOf(doc_id, source, page, text) ==
    [doc_id |-> doc_id, text |-> text, source |-> source, page |-> page]

\* the records of a PDF: one per page with text, pages ascending
PdfRecords ==
    {<<>>}
    \cup {<<RecordOf("d1", "a.pdf", p, t)>> : p \in 1..2, t \in PageTexts}
    \cup {<<RecordOf("d1", "a.pdf", 1, t), RecordOf("d1", "a.pdf", 2, u)>> :
             t \in PageTexts, u \in PageTexts}

\* the records of a text file: one, without a page
TxtRecords == {<<>>} \cup {<<RecordOf("d2", "b.txt", NoPage, t)>> : t \in PageTexts}

\* chunk_documents is about to be called with the records of one batch.
InitChunk ==
    /\ fs = [n \in Names |-> NoFile]
    /\ regFile = [state |-> "missing", data |-> EmptyMap]
    /\ vstore = {}
    /\ bm25File = [state |-> "missing", map |-> {}]
    /\ pc = "chunking"
    /\ scanned = EmptyMap /\ registry = EmptyMap /\ new_docs = EmptyMap
    /\ existing_docs = EmptyMap /\ deleted_docs = EmptyMap
    /\ repair_docs = EmptyMap /\ docs_to_index = EmptyMap
    /\ toDelete = {} /\ toCheck = {} /\ chunks = <<>> /\ batchStart = 0
    /\ fsChanges = 0 /\ faulted = FALSE /\ raisedAt = "" /\ trace = <<>>
    /\ existsResult = EmptyMap /\ bm25Fresh = FALSE /\ prev = NoPrev
    /\ rebuildFailAt = "" /\ partialDocs = {}
    /\ batches = <<>> /\ lastDone = NoneDone
    /\ RetrieverNew /\ NoRace
    /\ \E p \in PdfRecords, t \in TxtRecords : records = p \o t
    /\ recIdx = 1 /\ start = 0 /\ chunk_index = 0

notChunker ==
    <<stores, scanned, registry, new_docs, existing_docs, deleted_docs, repair_docs,
      docs_to_index, toDelete, toCheck, batchStart, history, retriever, racers>>

\* Lines 29-58: one iteration of the while loop.
ChunkStep ==
    /\ pc = "chunking"
    /\ recIdx <= Len(records)
    /\ start < Len(records[recIdx].text)
    /\ chunk_index < MaxChunkIndex
    /\ LET step == WhileBody(records[recIdx], start, chunk_index)
       IN /\ chunks' = chunks \o step.appended
          /\ start' = step.start
          /\ chunk_index' = step.chunk_index
    /\ UNCHANGED <<notChunker, pc, records, recIdx>>

\* Lines 19-27: the while loop is over, the for loop takes the next record.
NextRecord ==
    /\ pc = "chunking"
    /\ recIdx <= Len(records)
    /\ ~(start < Len(records[recIdx].text))
    /\ recIdx' = recIdx + 1
    /\ start' = 0
    /\ chunk_index' = 0
    /\ UNCHANGED <<notChunker, pc, records, chunks>>

\* Lines 60-61.
ChunkReturn ==
    /\ pc = "chunking"
    /\ recIdx > Len(records)
    /\ pc' = "chunked"
    /\ UNCHANGED <<notChunker, chunks, chunker>>

NextChunk ==
    \/ ChunkStep
    \/ NextRecord
    \/ ChunkReturn

SpecChunk == InitChunk /\ [][NextChunk]_vars

\* C11: run_indexing_pipeline returns rather than raises whatever backend call
\* fails (vector delete, existence check, embedding, upsert, keyword rebuild);
\* no run is ended by the exception of one of these calls.
C11_BackendFailureReturns ==
    raisedAt \notin {"delete", "repair", "embed", "upsert", "rebuild"}

\* C13: when a chunk handed to index_chunks has an empty doc_id, the call ends
\* with the assertion error and no chunk of the call reaches the collection,
\* the valid chunks placed before the offending one included.
C13_AssertBeforeUpsert ==
    ((\E i \in DOMAIN chunks : chunks[i].doc_id = "") /\ pc # "index") =>
        /\ pc = "raised"
        /\ raisedAt = "assert"
        /\ "upsert" \notin Ops
        /\ StoreIds(vstore) = prev.ids

C13_Witness ==
    /\ pc = "raised" /\ raisedAt = "assert"
    /\ Len(chunks) > BATCH_SIZE
    /\ \A i \in 1..BATCH_SIZE : chunks[i].doc_id # ""
    /\ chunks[Len(chunks)].doc_id = ""
    /\ StoreIds(vstore) = prev.ids
\* C14: diff_registry leaves both inputs as they were and returns, keyed by
\* doc_id, new = scanned - registry, existing = scanned & registry and
\* deleted = registry - scanned (new and existing with the scanned values,
\* deleted with the registry's); the three key sets are pairwise disjoint and
\* cover the keys of both inputs.
C14_DiffIsSetOperation ==
    [][(pc = "diff" /\ pc' = "diffed") =>
        LET S == DOMAIN scanned
            R == DOMAIN registry
            N == DOMAIN new_docs'
            E == DOMAIN existing_docs'
            D == DOMAIN deleted_docs'
        IN /\ scanned' = scanned /\ registry' = registry
           /\ N = S \ R /\ E = S \cap R /\ D = R \ S
           /\ N \cap E = {} /\ N \cap D = {} /\ E \cap D = {}
           /\ N \cup E \cup D = S \cup R
           /\ \A d \in N : new_docs'[d] = scanned[d]
           /\ \A d \in E : existing_docs'[d] = scanned[d]
           /\ \A d \in D : deleted_docs'[d] = registry[d]]_vars

C14_Witness ==
    /\ pc = "diffed"
    /\ DOMAIN new_docs # {} /\ DOMAIN existing_docs # {} /\ DOMAIN deleted_docs # {}
    /\ \E d \in DOMAIN existing_docs : scanned[d] # registry[d]
\* C15: when the process dies during save_registry, the registry file is
\* afterwards either the previous complete registry or the new complete one.
C15_SaveIsAtomic ==
    [][(pc = "save" /\ pc' = "crashed" /\ regFile.state = "ok") =>
          regFile' \in {regFile, save_registry(registry)}]_vars
\* C12: retrieve never raises: whatever fails or comes back empty in semantic
\* recall, keyword recall and reranking, it returns a list, and the empty list
\* when neither recall stage yielded a candidate.
C12_RetrieveNeverRaises ==
    /\ rpc # "raised"
    /\ rpc = "returned" =>
          /\ DOMAIN result = 1..Len(result)
          /\ (semAccepted = <<>> /\ kwAccepted = <<>>) => result = <<>>

C12_Witness ==
    /\ rpc = "returned"
    /\ semStatus = "failed" /\ kwStatus = "failed" /\ rerankStatus = "skipped"
    /\ vstore # {}
CandidateKeys == [i \in DOMAIN candidates |-> candidates[i].key]
ResultIds == [i \in DOMAIN result |-> result[i].chunk.id]
NoRepeat(seq) == \A i, j \in DOMAIN seq : seq[i] = seq[j] => i = j
Fused == rpc \in {"rerank", "returned"}

\* C16: in the fused candidate set handed to the reranker no chunk id occurs
\* twice, a chunk id that both recall stages returned occurs exactly once, and
\* no chunk id occurs twice in the returned list.
C16_FusionDedup ==
    Fused =>
        /\ NoRepeat(CandidateKeys)
        /\ NoRepeat(ResultIds)
        /\ \A i \in DOMAIN semAccepted, j \in DOMAIN kwAccepted :
              semAccepted[i].key = kwAccepted[j].id =>
                 Cardinality({n \in DOMAIN candidates :
                                 candidates[n].key = kwAccepted[j].id}) = 1

C16_Witness ==
    /\ rpc = "returned"
    /\ \E i \in DOMAIN semAccepted, j \in DOMAIN kwAccepted :
          semAccepted[i].key = kwAccepted[j].id
    /\ Len(result) = TOP_K_RERANKED

\* the fused candidates that are not in the returned list
LeftOut == {i \in DOMAIN candidates : \A n \in DOMAIN result : result[n].chunk.id # candidates[i].key}

\* C17: when reranking succeeds, the returned list is sorted by ascending
\* distance, holds min(TOP_K_RERANKED, number of fused candidates) entries, and
\* no fused candidate left out is strictly closer than a returned one.
C17_SortedTopK ==
    (rpc = "returned" /\ rerankStatus = "ok") =>
        /\ \A i, j \in DOMAIN result : i < j => result[i].score <= result[j].score
        /\ Len(result) = Min(TOP_K_RERANKED, Len(candidates))
        /\ \A i \in LeftOut : \A n \in DOMAIN result : distances[i] >= result[n].score

C17_Witness ==
    /\ rpc = "returned" /\ rerankStatus = "ok"
    /\ Len(candidates) > TOP_K_RERANKED
    /\ \E i, j \in DOMAIN distances : i < j /\ distances[i] > distances[j]
    /\ \E i \in LeftOut : distances[i] > result[Len(result)].score

\* C18: when the reranker raises, retrieve returns the first TOP_K_RERANKED
\* fused candidates in insertion order (the semantic candidates, then the
\* keyword-only ones), each with the same neutral score.
C18_RerankFallback ==
    (rpc = "returned" /\ rerankStatus = "failed") =>
        /\ Len(result) = Min(TOP_K_RERANKED, Len(candidates))
        /\ \A i \in DOMAIN result :
              result[i].chunk = candidates[i].chunk /\ result[i].score = NeutralScore
        /\ SubSeq(candidates, 1, Len(semAccepted)) = semAccepted
        /\ LET added == SelectSeq(kwAccepted, LAMBDA e :
                            \A i \in DOMAIN semAccepted : semAccepted[i].key # e.id)
           IN \A i, j \in DOMAIN added :
                 (i < j /\ added[i].id # added[j].id) =>
                    \E a, b \in DOMAIN candidates :
                       /\ Len(semAccepted) < a /\ a < b
                       /\ candidates[a].key = added[i].id
                       /\ candidates[b].key = added[j].id

C18_Witness ==
    /\ rpc = "returned" /\ rerankStatus = "failed"
    /\ semAccepted # <<>>
    /\ Len(candidates) > Len(semAccepted)
    /\ Len(candidates) > TOP_K_RERANKED

\* C19: when semantic recall fails, the fused set is exactly what keyword
\* recall accepted; when the keyword snapshot was not loaded or keyword
\* scoring fails, it is exactly what semantic recall accepted; a stage that
\* fails takes nothing away from what the other stage accepted.
C19_RecallIsolation ==
    /\ semStatus = "failed" /\ kwStatus # "" =>
          /\ Fused
          /\ Keys(candidates) = {kwAccepted[i].id : i \in DOMAIN kwAccepted}
          /\ \A n \in DOMAIN candidates : \E i \in DOMAIN kwAccepted :
                candidates[n].chunk = KeywordChunk(kwAccepted[i])
    /\ kwStatus \in {"unavailable", "failed"} =>
          /\ Fused
          /\ candidates = semAccepted

C19_Witness ==
    /\ Fused
    /\ \/ semStatus = "failed" /\ kwStatus = "ok" /\ Len(candidates) = TOP_K_RETRIEVAL
       \/ semStatus = "ok" /\ kwStatus = "failed" /\ Len(candidates) = TOP_K_RETRIEVAL
\* chunk_index of a chunk, as a number
IndexOf(chunk) == CHOOSE n \in 0..(MaxChunkIndex + 1) : ToString(n) = chunk.metadata.chunk_index

\* C20: among the chunks chunk_documents produces, two chunks of one document
\* whose (page, chunk_index) pairs differ have different ids, chunk_index
\* grows strictly along the chunks of one page record, and no two chunks of
\* the batch share an id.
C20_ChunkIdsDistinct ==
    \A i, j \in DOMAIN chunks :
        /\ (chunks[i].doc_id = chunks[j].doc_id
            /\ <<chunks[i].page, IndexOf(chunks[i])>> # <<chunks[j].page, IndexOf(chunks[j])>>)
              => chunks[i].id # chunks[j].id
        /\ (i < j /\ chunks[i].doc_id = chunks[j].doc_id /\ chunks[i].page = chunks[j].page)
              => IndexOf(chunks[i]) < IndexOf(chunks[j])
        /\ i # j => chunks[i].id # chunks[j].id

C20_Witness ==
    /\ pc = "chunked"
    /\ Len(records) = 3
    /\ \E i, j \in DOMAIN chunks :
          /\ chunks[i].doc_id = chunks[j].doc_id
          /\ chunks[i].page # chunks[j].page
          /\ IndexOf(chunks[i]) = 1 /\ IndexOf(chunks[j]) = 1
    /\ \E i \in DOMAIN chunks : chunks[i].page = NoPage /\ IndexOf(chunks[i]) = 1
\* C21: the Chunk retrieve rebuilds from a stored record has the id under
\* which the chunk was upserted, and its doc_id, source and page.
C21_IdRoundTrip ==
    (Fused /\ semStatus = "ok") =>
        \A n \in DOMAIN semAccepted :
           \E r \in vstore :
              /\ semAccepted[n].chunk.id = r.id
              /\ semAccepted[n].chunk.doc_id = r.metadata.doc_id
              /\ semAccepted[n].chunk.source = r.metadata.source
              /\ semAccepted[n].chunk.page = r.metadata.page

\* C25: a step of retrieve, whatever its outcome, leaves the persisted
\* Registry, the VectorIndex and the persisted keyword snapshot as they were.
C25_RetrieveReadOnly ==
    [][(rpc \in {"ready", "keyword", "rerank"} /\ rpc' # rpc) =>
          (regFile' = regFile /\ vstore' = vstore /\ bm25File' = bm25File)]_vars

C25_Witness ==
    /\ rpc = "returned"
    /\ vstore # {} /\ bm25File.state = "ok"
    /\ semReturned # <<>> /\ kwAccepted # <<>>
    /\ rerankStatus = "failed"

\* C26: a keyword map entry enters the fused set only if it is among the
\* TOP_K_RETRIEVAL best scores, its score is positive and its chunk id is not
\* there from semantic recall; the semantic candidates stay as they were.
C26_KeywordAcceptance ==
    (Fused /\ kwStatus = "ok") =>
        /\ SubSeq(candidates, 1, Len(semAccepted)) = semAccepted
        /\ Len(kwScores.top) <= TOP_K_RETRIEVAL
        /\ \A n \in (Len(semAccepted) + 1)..Len(candidates) :
              \E i \in DOMAIN kwScores.top :
                 LET t == kwScores.top[i]
                 IN /\ candidates[n].key = t.entry.id
                    /\ candidates[n].chunk = KeywordChunk(t.entry)
                    /\ t.score > 0
                    /\ t.score >= kwScores.rest
                    /\ t.entry.id \notin Keys(semAccepted)

C26_Witness ==
    /\ Fused /\ kwStatus = "ok"
    /\ Len(candidates) > Len(semAccepted)
    /\ \E i \in DOMAIN kwAccepted, n \in DOMAIN semAccepted :
          /\ kwAccepted[i].id = semAccepted[n].key
          /\ KeywordChunk(kwAccepted[i]) # semAccepted[n].chunk

\* C30: two records that semantic recall returns, stored under different
\* chunk ids, are two candidates of the fused set: each returned record has
\* its own candidate.
C30_FusionKeepsDistinct ==
    (Fused /\ semStatus = "ok") =>
        \A i \in DOMAIN semReturned :
           \E n \in DOMAIN candidates : candidates[n].chunk = SemanticChunk(semReturned[i])
RECURSIVE Flatten(_)
Flatten(seqs) == IF seqs = <<>> THEN <<>> ELSE Head(seqs) \o Flatten(Tail(seqs))

\* C22: index_chunks on n > 0 chunks with batch ceiling B makes ceil(n/B)
\* upsert calls, each of B chunks except the last of n - B*(ceil(n/B) - 1);
\* the batches, in order, are the chunk list cut into contiguous pieces.
C22_Batching ==
    (pc = "register" /\ chunks # <<>>) =>
        LET n == Len(chunks)
            k == Len(batches)
        IN /\ k * BATCH_SIZE >= n /\ (k - 1) * BATCH_SIZE < n
           /\ \A i \in 1..(k - 1) : Len(batches[i]) = BATCH_SIZE
           /\ Len(batches[k]) = n - BATCH_SIZE * (k - 1)
           /\ Flatten(batches) = chunks
           /\ \A i \in DOMAIN chunks : chunks[i].id \in StoreIds(vstore)

C22_Witness ==
    /\ pc = "register"
    /\ Len(batches) = 3
    /\ Len(batches[1]) = BATCH_SIZE /\ Len(batches[2]) = BATCH_SIZE
    /\ Len(batches[3]) < BATCH_SIZE
    /\ \A i, j \in DOMAIN chunks : chunks[i].id = chunks[j].id => i = j

\* C23: when an upsert batch of a run fails, no document of the set the run was
\* indexing (new or repaired) is left in the persisted Registry while some of
\* its chunks are missing from the VectorIndex.
C23_NoSuccessOnFailedBatch ==
    (pc = "raised" /\ raisedAt = "upsert") =>
        \A d \in DOMAIN docs_to_index :
            d \in DOMAIN PersistedRegistry => ExpectedIds(d) \subseteq StoreIds(vstore)

\* the same for the documents that were new to the run
C23_NewDocsNotRecorded ==
    (pc = "raised" /\ raisedAt = "upsert") =>
        \A d \in DOMAIN new_docs : d \notin DOMAIN PersistedRegistry

\* C28: a run that follows a completed run with the filesystem unchanged (and
\* no backend fault in either) finds nothing to do: no new and no deleted
\* document, none scheduled by repair-detect, nothing handed to ingest/upsert,
\* whatever the files contain.
C28_Convergence ==
    (pc = "save" /\ prev.valid /\ ~faulted) =>
        /\ new_docs = EmptyMap
        /\ deleted_docs = EmptyMap
        /\ repair_docs = EmptyMap
        /\ docs_to_index = EmptyMap

\* the diff part of the same statement
C28_DiffConverges ==
    (pc = "save" /\ prev.valid /\ ~faulted) =>
        new_docs = EmptyMap /\ deleted_docs = EmptyMap

\* what scan_documents returned in the last run that completed
OldScan == scan_documents(lastDone.fs)

\* the run is the first one begun after a run that completed without fault;
\* its deletes, repair-detect and upserts are over and met no fault
SecondRun ==
    /\ pc = "save" /\ ~faulted
    /\ lastDone.valid /\ lastDone.clean /\ lastDone.begun = 1

\* the content of d is on the filesystem in both runs, under another name in
\* the second and no longer under the first
Renamed(d) ==
    /\ d \in DOMAIN OldScan /\ d \in DOMAIN scanned
    /\ OldScan[d] # scanned[d]
    /\ fs[OldScan[d]] = NoFile

\* file n holds other bytes than in the earlier run, and neither content
\* exists anywhere else in either run
Changed(n) ==
    /\ lastDone.fs[n] # NoFile /\ fs[n] # NoFile /\ lastDone.fs[n] # fs[n]
    /\ \A k \in Names : fs[k] # lastDone.fs[n] /\ lastDone.fs[k] # fs[n]

\* two files held the same bytes in the earlier run and one of them is left
CopyRemoved(n, k) ==
    /\ n # k
    /\ lastDone.fs[n] # NoFile /\ lastDone.fs[k] = lastDone.fs[n]
    /\ fs[n] = NoFile /\ fs[k] = lastDone.fs[k]

C24_Rename ==
    SecondRun =>
        \A d \in DocIds : Renamed(d) =>
            d \notin DOMAIN deleted_docs /\ d \notin DOMAIN docs_to_index

C24_ChangedBytes ==
    SecondRun =>
        \A n \in Names : Changed(n) =>
            /\ compute_doc_id(lastDone.fs[n]) \in DOMAIN deleted_docs
            /\ ~HasVectors(compute_doc_id(lastDone.fs[n]))
            /\ compute_doc_id(fs[n]) \in DOMAIN docs_to_index

C24_CopyRemoved ==
    SecondRun =>
        \A n, k \in Names : CopyRemoved(n, k) =>
            /\ compute_doc_id(fs[k]) \in DOMAIN scanned
            /\ deleted_docs = EmptyMap

\* C24: document identity is the content hash only.  Between two runs, a
\* rename without a change of bytes causes no VectorIndex delete and no
\* ingestion in the second run; changed bytes cause the old doc_id's chunks to
\* be deleted and the new doc_id to be indexed; two files with identical bytes
\* are one doc_id, so removing one of the copies deletes nothing.
C24_IdentityIsContentHash == C24_Rename /\ C24_ChangedBytes /\ C24_CopyRemoved

\* the rename part for documents that have vectors
C24_RenameWithVectors ==
    SecondRun =>
        \A d \in DocIds : (Renamed(d) /\ d \in lastDone.docs) =>
            d \notin DOMAIN deleted_docs /\ d \notin DOMAIN docs_to_index

\* the collection holds the record this chunk was built from
InIndex(chunk) ==
    \E r \in vstore : r.metadata = chunk.metadata /\ r.document = chunk.text

\* What a run that completes without fault leaves: the snapshot of the
\* collection, or an empty collection beside whatever snapshot was on disk.
LeftByRun ==
    \/ vstore = {}
    \/ bm25File.state = "ok" /\ bm25File.map = ChunkMap(vstore)

\* every completed run without fault ends in such a state, and the empty
\* collection beside an older snapshot is among them
C29_RunLeaves == (Completed /\ ~faulted) => LeftByRun

C29_LastDocumentRemoved ==
    Completed /\ ~faulted /\ vstore = {} /\ bm25File.state = "ok" /\ DOMAIN deleted_docs # {}

\* C29: on the collection and snapshot a completed run leaves, retrieve on a
\* Retriever constructed afterwards returns no chunk that is not in the
\* VectorIndex, also when the run removed the last remaining document.
C29_OnlyIndexedEvidence ==
    (rpc = "returned" /\ LeftByRun) =>
        \A i \in DOMAIN result : InIndex(result[i].chunk)

\* the same while the collection is not empty
C29_NonEmptyIndex ==
    (rpc = "returned" /\ LeftByRun /\ vstore # {}) =>
        \A i \in DOMAIN result : InIndex(result[i].chunk)

\* ------------------------------------- two runs on one data directory

MaxRaceFsChanges == 1

\* ingest_new_documents when files may have gone since the scan: opening a
\* missing file raises inside the try, and the document adds no record
RECURSIVE IngestPresentFrom(_, _, _)
IngestPresentFrom(order, docs, files) ==
    IF order = <<>> THEN <<>>
    ELSE (IF files[docs[Head(order)]] = NoFile THEN <<>>
          ELSE IngestOne(Head(order), docs[Head(order)], files[docs[Head(order)]]))
         \o IngestPresentFrom(Tail(order), docs, files)

\* the stores at rest after a run over the files of DOCS_DIR, which both
\* processes are about to index; nothing fails in either
InitRace ==
    /\ fs \in [Names -> Contents \cup {NoFile}]
    /\ regFile = save_registry(scan_documents(fs))
    /\ vstore = IndexedStore(fs)
    /\ bm25File = _rebuild_bm25_index([state |-> "missing", map |-> {}], vstore, "none")
    /\ pc = "idle"
    /\ scanned = EmptyMap /\ registry = EmptyMap /\ new_docs = EmptyMap
    /\ existing_docs = EmptyMap /\ deleted_docs = EmptyMap
    /\ repair_docs = EmptyMap /\ docs_to_index = EmptyMap
    /\ toDelete = {} /\ toCheck = {} /\ chunks = <<>> /\ batchStart = 0
    /\ fsChanges = 0 /\ faulted = FALSE /\ raisedAt = "" /\ trace = <<>>
    /\ existsResult = EmptyMap /\ bm25Fresh = FALSE /\ prev = NoPrev
    /\ rebuildFailAt = "" /\ partialDocs = {}
    /\ batches = <<>> /\ lastDone = NoneDone
    /\ RetrieverNew /\ ChunkerIdle /\ NoRace

notRace == <<pc, locals, faulted, raisedAt, trace, existsResult, bm25Fresh,
             rebuildFailAt, partialDocs, prev, batches, lastDone, retriever, chunker>>

Other(r) == 3 - r
Underway(r) == runs[r].pc \notin {"idle", "done"}

\* A file is added, removed or replaced while the runs are under way or between them.
RaceFsChange ==
    /\ fsChanges < MaxRaceFsChanges
    /\ \E n \in Names, c \in Contents \cup {NoFile} :
          /\ c # fs[n]
          /\ fs' = [fs EXCEPT ![n] = c]
    /\ fsChanges' = fsChanges + 1
    /\ UNCHANGED <<regFile, vstore, bm25File, racers, notRace>>

\* Line 81.
RaceScan(r) ==
    /\ runs[r].pc = "idle"
    /\ runs' = [runs EXCEPT ![r].pc = "load", ![r].scanned = scan_documents(fs)]
    /\ overlapped' = (overlapped \/ Underway(Other(r)))
    /\ UNCHANGED <<stores, saver, fsChanges, notRace>>

\* Lines 84-90.
RaceLoad(r) ==
    /\ runs[r].pc = "load"
    /\ LET reg == load_registry(regFile)
           diff == diff_registry(runs[r].scanned, reg)
       IN runs' = [runs EXCEPT ![r].pc = "delete",
                               ![r].registry = reg,
                               ![r].new_docs = diff.new,
                               ![r].deleted_docs = diff.deleted]
    /\ UNCHANGED <<stores, saver, overlapped, fsChanges, notRace>>

\* Lines 95-98: the delete loop.
RaceDelete(r) ==
    /\ runs[r].pc = "delete"
    /\ vstore' = {rec \in vstore : rec.metadata.doc_id \notin DOMAIN runs[r].deleted_docs}
    /\ runs' = [runs EXCEPT ![r].pc = "index",
                            ![r].registry = Restrict(@, DOMAIN @ \ DOMAIN runs[r].deleted_docs)]
    /\ UNCHANGED <<fs, regFile, bm25File, saver, overlapped, fsChanges, notRace>>

\* Lines 100-123: repair-detect, ingest, chunk, index_chunks, registry entries.
RaceIndex(r) ==
    /\ runs[r].pc = "index"
    /\ LET reg == runs[r].registry
           repair == [d \in {k \in DOMAIN reg : NeedsRepair(document_exists(vstore, k, FALSE))} |->
                         IF d \in DOMAIN runs[r].scanned THEN runs[r].scanned[d] ELSE NoneInfo]
           docs == Merge(runs[r].new_docs, repair)
       IN /\ \A d \in DOMAIN docs : docs[d] # NoneInfo
          /\ \E order \in DictOrders(runs[r].new_docs, repair) :
                vstore' = upsert(vstore, chunk_documents(IngestPresentFrom(order, docs, fs)))
          /\ runs' = [runs EXCEPT ![r].pc = "save",
                                  ![r].docs_to_index = docs,
                                  ![r].registry = RegistryUpdate(reg, docs)]
    /\ UNCHANGED <<fs, regFile, bm25File, saver, overlapped, fsChanges, notRace>>

\* Line 126.
RaceSave(r) ==
    /\ runs[r].pc = "save"
    /\ regFile' = save_registry(runs[r].registry)
    /\ saver' = r
    /\ runs' = [runs EXCEPT ![r].pc = "rebuild"]
    /\ UNCHANGED <<fs, vstore, bm25File, overlapped, fsChanges, notRace>>

\* Line 129, and the return of the run.
RaceRebuild(r) ==
    /\ runs[r].pc = "rebuild"
    /\ bm25File' = _rebuild_bm25_index(bm25File, vstore, "none")
    /\ runs' = [runs EXCEPT ![r].pc = "done"]
    /\ UNCHANGED <<fs, regFile, vstore, saver, overlapped, fsChanges, notRace>>

NextRace ==
    \/ RaceFsChange
    \/ \E r \in RunIds : RaceScan(r)
    \/ \E r \in RunIds : RaceLoad(r)
    \/ \E r \in RunIds : RaceDelete(r)
    \/ \E r \in RunIds : RaceIndex(r)
    \/ \E r \in RunIds : RaceSave(r)
    \/ \E r \in RunIds : RaceRebuild(r)

SpecRace == InitRace /\ [][NextRace]_vars

BothDone == \A r \in RunIds : runs[r].pc = "done"

\* the Registry the last saver persisted omits a document the other run
\* indexed, and the last saver did not delete it
Omitted(d) ==
    /\ d \in DOMAIN runs[Other(saver)].docs_to_index
    /\ HasVectors(d)
    /\ d \notin DOMAIN PersistedRegistry
    /\ d \notin DOMAIN runs[saver].deleted_docs

\* the Registry the last saver persisted holds a document the other run
\* deleted, and the last saver did not index it
ReAdded(d) ==
    /\ d \in DOMAIN runs[Other(saver)].deleted_docs
    /\ ~HasVectors(d)
    /\ d \in DOMAIN PersistedRegistry
    /\ d \notin DOMAIN runs[saver].docs_to_index

LostUpdate == BothDone /\ \E d \in DocIds : Omitted(d) \/ ReAdded(d)

\* C27: the Registry persisted by the run that saves last can omit a document
\* the other run indexed, or hold one the other run deleted; it happens in an
\* interleaving of two runs and never when one run ends before the other
\* starts.
C27_LostUpdateNeedsOverlap == LostUpdate => overlapped

C27_Witness ==
    /\ BothDone /\ overlapped
    /\ \E d \in DocIds : Omitted(d)

C27_ReAddedReached ==
    /\ BothDone /\ overlapped
    /\ \E d \in DocIds : ReAdded(d)

\* C31: chunk_documents terminates for every input: on each iteration of the
\* while loop over one record the window start strictly advances (so the loop
\* ends after finitely many chunks), wherever the spaces of the text are.
C31_StartAdvances ==
    [][(pc = "chunking" /\ pc' = "chunking" /\ recIdx' = recIdx) => start' > start]_vars

\* the same for the iterations that did not cut the window back to a space
\* within the first CHUNK_OVERLAP characters
C31_AdvancesUnlessCutEarly ==
    [][(/\ pc = "chunking" /\ pc' = "chunking" /\ recIdx' = recIdx
        /\ LET text == records[recIdx].text
               last_space == RFindSpace(Slice(text, start, start + CHUNK_SIZE))
           IN ~(start + CHUNK_SIZE < Len(text) /\ last_space # -1
                /\ last_space <= CHUNK_OVERLAP))
       => start' > start]_vars

====
